---- MODULE Spec2Model ----
(***************************************************************************)
(* Invoice Data Extractor (src/streamlit_app.py): a Streamlit script that  *)
(* is re-run from top to bottom on every widget interaction.  The model    *)
(* has three parts:                                                        *)
(*   - text level: str.strip, the fence slicing and json.loads, on texts   *)
(*     that are sequences of one-character strings;                        *)
(*   - display_extracted_data as an operator from a parsed value to the    *)
(*     elements it puts on the page;                                       *)
(*   - the session: widget state, st.secrets, the cached client and the    *)
(*     page produced by the last script run.                               *)
(* st.secrets is modelled the way the script uses it: a process-wide       *)
(* mapping that line 150 writes and line 177 reads.                        *)
(***************************************************************************)
EXTENDS Integers, Sequences, FiniteSets, TLC

(***************************************************************************)
(* Texts                                                                   *)
(***************************************************************************)
K_invoice_number == <<"i", "n", "v", "o", "i", "c", "e", "_", "n", "u", "m", "b", "e", "r">>
K_invoice_date == <<"i", "n", "v", "o", "i", "c", "e", "_", "d", "a", "t", "e">>
K_due_date == <<"d", "u", "e", "_", "d", "a", "t", "e">>
K_vendor_name == <<"v", "e", "n", "d", "o", "r", "_", "n", "a", "m", "e">>
K_vendor_address == <<"v", "e", "n", "d", "o", "r", "_", "a", "d", "d", "r", "e", "s", "s">>
K_vendor_tax_id == <<"v", "e", "n", "d", "o", "r", "_", "t", "a", "x", "_", "i", "d">>
K_customer_name == <<"c", "u", "s", "t", "o", "m", "e", "r", "_", "n", "a", "m", "e">>
K_customer_address == <<"c", "u", "s", "t", "o", "m", "e", "r", "_", "a", "d", "d", "r", "e", "s", "s">>
K_subtotal == <<"s", "u", "b", "t", "o", "t", "a", "l">>
K_tax_amount == <<"t", "a", "x", "_", "a", "m", "o", "u", "n", "t">>
K_total_amount == <<"t", "o", "t", "a", "l", "_", "a", "m", "o", "u", "n", "t">>
K_currency == <<"c", "u", "r", "r", "e", "n", "c", "y">>
K_line_items == <<"l", "i", "n", "e", "_", "i", "t", "e", "m", "s">>
K_description == <<"d", "e", "s", "c", "r", "i", "p", "t", "i", "o", "n">>
K_quantity == <<"q", "u", "a", "n", "t", "i", "t", "y">>
K_unit_price == <<"u", "n", "i", "t", "_", "p", "r", "i", "c", "e">>
K_total_price == <<"t", "o", "t", "a", "l", "_", "p", "r", "i", "c", "e">>

\* The twelve text-valued fields of the prompt, in the prompt's order.
ScalarFields ==
    << K_invoice_number, K_invoice_date, K_due_date, K_vendor_name,
       K_vendor_address, K_vendor_tax_id, K_customer_name, K_customer_address,
       K_subtotal, K_tax_amount, K_total_amount, K_currency >>

\* The keys of one line item, in the prompt's order.
ItemFields == << K_description, K_quantity, K_unit_price, K_total_price >>

\* Every key of the prompt's JSON shape, in the prompt's order.
PromptKeys ==
    SubSeq(ScalarFields, 1, 8) \o << K_line_items >> \o ItemFields
        \o SubSeq(ScalarFields, 9, 12)

\* The sentinel of the prompt and of data.get(key, "N/A").
NA == <<"N", "/", "A">>

\* The grave accent, written by its code point (a text is a sequence of
\* one-character strings).
BACKTICK == "U+0060"

\* The markdown fence and the fence with its language tag.
Fence == <<BACKTICK, BACKTICK, BACKTICK>>
FenceJson == Fence \o <<"j", "s", "o", "n">>

\* Whitespace that str.strip removes and json.loads skips.
Whitespace == {" ", "\n"}

At(s, i) == IF i \in 1..Len(s) THEN s[i] ELSE ""

startswith(s, p) == Len(s) >= Len(p) /\ SubSeq(s, 1, Len(p)) = p

RECURSIVE lstrip(_)
lstrip(s) == IF s # <<>> /\ Head(s) \in Whitespace THEN lstrip(Tail(s)) ELSE s

RECURSIVE rstrip(_)
rstrip(s) ==
    IF s # <<>> /\ s[Len(s)] \in Whitespace
    THEN rstrip(SubSeq(s, 1, Len(s) - 1))
    ELSE s

\* content.strip()
strip(s) == rstrip(lstrip(s))

\* s[a:-b] of Python, for a >= 0 and b > 0.
Slice(s, a, b) ==
    IF a + 1 <= Len(s) - b THEN SubSeq(s, a + 1, Len(s) - b) ELSE <<>>

(***************************************************************************)
(* JSON values and json.loads                                              *)
(***************************************************************************)
JNull == [t |-> "null"]
JBool(b) == [t |-> "bool", b |-> b]
JNum(n) == [t |-> "num", n |-> n]
JStr(s) == [t |-> "str", s |-> s]
JArr(e) == [t |-> "arr", e |-> e]
JObj(m) == [t |-> "obj", m |-> m]

\* Variant of Truthy that tests only for None.
TruthyNotNone(v) == v.t # "null"

\* The Python truth value of a parsed JSON value.
Truthy(v) ==
    CASE v.t = "null" -> FALSE
      [] v.t = "bool" -> v.b
      [] v.t = "num" -> v.n # 0
      [] v.t = "str" -> v.s # <<>>
      [] v.t = "arr" -> v.e # <<>>
      [] v.t = "obj" -> DOMAIN v.m # {}

\* dict item assignment: a later duplicate key replaces the earlier one.
Put(m, k, v) == [x \in DOMAIN m \cup {k} |-> IF x = k THEN v ELSE m[x]]

Digits == <<"0", "1", "2", "3", "4", "5", "6", "7", "8", "9">>
IsDigit(c) == \E d \in 1..Len(Digits) : Digits[d] = c
DigitVal(c) == (CHOOSE d \in 1..Len(Digits) : Digits[d] = c) - 1

Failed == [ok |-> FALSE]
Parsed(v, p) == [ok |-> TRUE, val |-> v, pos |-> p]

RECURSIVE SkipWs(_, _)
SkipWs(s, i) == IF At(s, i) \in Whitespace THEN SkipWs(s, i + 1) ELSE i

\* Index of the quote closing a string whose body starts at i; 0 when the
\* text ends or a control character comes first.
RECURSIVE ScanString(_, _)
ScanString(s, i) ==
    IF i > Len(s) \/ s[i] = "\n" THEN 0
    ELSE IF s[i] = "\"" THEN i
    ELSE ScanString(s, i + 1)

ParseString(s, i) ==
    LET j == ScanString(s, i + 1)
    IN  IF j = 0 THEN Failed ELSE Parsed(JStr(SubSeq(s, i + 1, j - 1)), j + 1)

RECURSIVE ScanNumber(_, _, _)
ScanNumber(s, i, n) ==
    IF IsDigit(At(s, i))
    THEN ScanNumber(s, i + 1, 10 * n + DigitVal(s[i]))
    ELSE Parsed(JNum(n), i)

\* An integer without sign, fraction or exponent; a leading 0 ends the number.
ParseNumber(s, i) ==
    IF s[i] = "0" THEN Parsed(JNum(0), i + 1) ELSE ScanNumber(s, i, 0)

MatchAt(s, i, lit) == i + Len(lit) - 1 <= Len(s) /\ SubSeq(s, i, i + Len(lit) - 1) = lit

RECURSIVE ParseValue(_, _)
RECURSIVE ParseMembers(_, _, _)
RECURSIVE ParseElements(_, _, _)

ParseMembers(s, i, m) ==
    IF At(s, i) # "\"" THEN Failed
    ELSE LET k == ParseString(s, i)
         IN  IF ~k.ok THEN Failed
             ELSE LET c == SkipWs(s, k.pos)
                  IN  IF At(s, c) # ":" THEN Failed
                      ELSE LET v == ParseValue(s, SkipWs(s, c + 1))
                           IN  IF ~v.ok THEN Failed
                               ELSE LET e == SkipWs(s, v.pos)
                                        m2 == Put(m, k.val.s, v.val)
                                    IN  IF At(s, e) = "}"
                                        THEN Parsed(JObj(m2), e + 1)
                                        ELSE IF At(s, e) = ","
                                        THEN ParseMembers(s, SkipWs(s, e + 1), m2)
                                        ELSE Failed

ParseElements(s, i, es) ==
    LET v == ParseValue(s, i)
    IN  IF ~v.ok THEN Failed
        ELSE LET e == SkipWs(s, v.pos)
                 es2 == Append(es, v.val)
             IN  IF At(s, e) = "]" THEN Parsed(JArr(es2), e + 1)
                 ELSE IF At(s, e) = ","
                 THEN ParseElements(s, SkipWs(s, e + 1), es2)
                 ELSE Failed

ParseValue(s, i) ==
    LET c == At(s, i)
    IN  IF c = "{"
        THEN LET j == SkipWs(s, i + 1)
             IN  IF At(s, j) = "}" THEN Parsed(JObj(<<>>), j + 1)
                 ELSE ParseMembers(s, j, <<>>)
        ELSE IF c = "["
        THEN LET j == SkipWs(s, i + 1)
             IN  IF At(s, j) = "]" THEN Parsed(JArr(<<>>), j + 1)
                 ELSE ParseElements(s, j, <<>>)
        ELSE IF c = "\"" THEN ParseString(s, i)
        ELSE IF IsDigit(c) THEN ParseNumber(s, i)
        ELSE IF MatchAt(s, i, <<"n", "u", "l", "l">>) THEN Parsed(JNull, i + 4)
        ELSE IF MatchAt(s, i, <<"t", "r", "u", "e">>) THEN Parsed(JBool(TRUE), i + 4)
        ELSE IF MatchAt(s, i, <<"f", "a", "l", "s", "e">>) THEN Parsed(JBool(FALSE), i + 5)
        ELSE Failed

\* json.loads(content): one value between optional whitespace, nothing after
\* it; [ok |-> FALSE] stands for json.JSONDecodeError.
json_loads(s) ==
    LET v == ParseValue(s, SkipWs(s, 1))
    IN  IF v.ok /\ SkipWs(s, v.pos) = Len(s) + 1
        THEN [ok |-> TRUE, val |-> v.val]
        ELSE Failed

(***************************************************************************)
(* Lines 80-87 of extract_invoice_data                                     *)
(***************************************************************************)
\* Variant of RemoveFence that tests for the bare fence first.
RemoveFenceBareFirst(content) ==
    IF startswith(content, Fence) THEN Slice(content, 3, 3)
    ELSE IF startswith(content, FenceJson) THEN Slice(content, 7, 3)
    ELSE content

\* Variant of RemoveFence that drops the last three characters only when
\* they are a fence.
RemoveFenceTolerant(content) ==
    LET closed == Len(content) >= 3 /\ SubSeq(content, Len(content) - 2, Len(content)) = Fence
        from(a) == IF closed THEN Slice(content, a, 3)
                   ELSE IF a < Len(content) THEN SubSeq(content, a + 1, Len(content)) ELSE <<>>
    IN  IF startswith(content, FenceJson) THEN from(7)
        ELSE IF startswith(content, Fence) THEN from(3)
        ELSE content

\* Lines 82-85: the fixed-offset slicing.
RemoveFence(content) ==
    IF startswith(content, FenceJson) THEN Slice(content, 7, 3)
    ELSE IF startswith(content, Fence) THEN Slice(content, 3, 3)
    ELSE content

\* Lines 81-85: content.strip(), then the slicing.
StripFence(content) == RemoveFence(strip(content))

\* Lines 81-87: what json.loads is given and what it answers.
ParseContent(content) == json_loads(StripFence(content))

(***************************************************************************)
(* Response texts.  The service is asked for the JSON shape of the prompt  *)
(* (lines 30-58); JsonText writes a value out the compact way.             *)
(***************************************************************************)
RECURSIVE NumText(_)
NumText(n) == IF n < 10 THEN <<Digits[n + 1]>> ELSE NumText(n \div 10) \o <<Digits[(n % 10) + 1]>>

Quoted(s) == <<"\"">> \o s \o <<"\"">>

RECURSIVE JsonText(_)
RECURSIVE MembersText(_, _, _)
RECURSIVE ElementsText(_, _)

\* The members of m whose key is PromptKeys[i] or later, comma-separated.
MembersText(m, i, first) ==
    IF i > Len(PromptKeys) THEN <<>>
    ELSE IF PromptKeys[i] \in DOMAIN m
    THEN (IF first THEN <<>> ELSE <<",">>)
            \o Quoted(PromptKeys[i]) \o <<":">> \o JsonText(m[PromptKeys[i]])
            \o MembersText(m, i + 1, FALSE)
    ELSE MembersText(m, i + 1, first)

ElementsText(e, i) ==
    IF i > Len(e) THEN <<>>
    ELSE (IF i = 1 THEN <<>> ELSE <<",">>) \o JsonText(e[i]) \o ElementsText(e, i + 1)

JsonText(v) ==
    CASE v.t = "null" -> <<"n", "u", "l", "l">>
      [] v.t = "bool" -> IF v.b THEN <<"t", "r", "u", "e">> ELSE <<"f", "a", "l", "s", "e">>
      [] v.t = "num" -> NumText(v.n)
      [] v.t = "str" -> Quoted(v.s)
      [] v.t = "arr" -> <<"[">> \o ElementsText(v.e, 1) \o <<"]">>
      [] v.t = "obj" -> <<"{">> \o MembersText(v.m, 1, TRUE) \o <<"}">>

(***************************************************************************)
(* Page elements and display_extracted_data                                *)
(***************************************************************************)
\* One element a script run puts on the page: the Streamlit call, its label
\* (emoji left out) and the text it shows.
El(kind, label, value) == [kind |-> kind, label |-> label, value |-> value]

\* str(v) of an f-string, for the values a field of the prompt can hold.
Text(v) ==
    CASE v.t = "str" -> v.s
      [] v.t = "null" -> <<"N", "o", "n", "e">>
      [] v.t = "num" -> NumText(v.n)
      [] v.t = "bool" -> IF v.b THEN <<"T", "r", "u", "e">> ELSE <<"F", "a", "l", "s", "e">>

\* st.metric(label, value): None is shown as a dash.
Metric(label, v) ==
    El("metric", label, IF v.t = "null" THEN <<"U+2014">> ELSE Text(v))

\* data.get(key, default) on a dict.
Get(m, k, default) == IF k \in DOMAIN m THEN m[k] ELSE default

\* len(x): defined on texts, lists and dicts only.
HasLen(v) == v.t \in {"str", "arr", "obj"}
PyLen(v) ==
    CASE v.t = "str" -> Len(v.s)
      [] v.t = "arr" -> Len(v.e)
      [] v.t = "obj" -> Cardinality(DOMAIN v.m)

\* pd.DataFrame(x) builds a frame from a list of records and refuses a text
\* (ValueError: DataFrame constructor not properly called); the inputs hold
\* lists and texts only.
DataFrameOk(v) == v.t = "arr"

\* Lines 96-119: everything display_extracted_data shows before the line items.
DisplayHead(m) ==
    << El("subheader", "Invoice Information", <<>>),
       Metric("Invoice Number", Get(m, K_invoice_number, JStr(NA))),
       Metric("Invoice Date", Get(m, K_invoice_date, JStr(NA))),
       Metric("Due Date", Get(m, K_due_date, JStr(NA))),
       El("subheader", "Vendor Information", <<>>),
       El("write", "**Name:**", Text(Get(m, K_vendor_name, JStr(NA)))),
       El("write", "**Address:**", Text(Get(m, K_vendor_address, JStr(NA)))),
       El("write", "**Tax ID:**", Text(Get(m, K_vendor_tax_id, JStr(NA)))),
       El("subheader", "Customer Information", <<>>),
       El("write", "**Name:**", Text(Get(m, K_customer_name, JStr(NA)))),
       El("write", "**Address:**", Text(Get(m, K_customer_address, JStr(NA)))),
       El("subheader", "Line Items", <<>>) >>

\* Variant of Amount whose missing amount is the empty text.
AmountBlank(m, k) ==
    Text(Get(m, K_currency, JStr(<<>>))) \o <<" ">> \o Text(Get(m, k, JStr(<<>>)))

\* Lines 134-138: an amount with the currency in front of it.
Amount(m, k) ==
    Text(Get(m, K_currency, JStr(<<>>))) \o <<" ">> \o Text(Get(m, k, JStr(NA)))

\* Lines 129-138.
DisplayTotals(m) ==
    << El("subheader", "Totals", <<>>),
       El("metric", "Subtotal", Amount(m, K_subtotal)),
       El("metric", "Tax Amount", Amount(m, K_tax_amount)),
       El("metric", "Total Amount", Amount(m, K_total_amount)) >>

\* Variant of LineItems that tests only that the key holds a value.
LineItemsNotNone(li) ==
    IF li.t = "null" THEN "empty"
    ELSE IF DataFrameOk(li) THEN "table"
    ELSE "ValueError"

\* Lines 122-127: what becomes of the line items: a table, the empty-state
\* text, or the exception raised by len() or pd.DataFrame().
LineItems(li) ==
    IF ~Truthy(li) THEN "empty"
    ELSE IF ~HasLen(li) THEN "TypeError"
    ELSE IF PyLen(li) = 0 THEN "empty"
    ELSE IF DataFrameOk(li) THEN "table"
    ELSE "ValueError"

\* Lines 96-138 for a dict m whose line items come out as `items`.
DisplayDict(m, li, items) ==
    [out |->
        DisplayHead(m) \o
        (IF items \in {"table", "empty"}
         THEN << IF items = "table"
                 THEN El("dataframe", "", NumText(Len(li.e)))
                 ELSE El("write", "No line items found", <<>>) >>
              \o DisplayTotals(m)
         ELSE <<>>),
     raised |-> IF items \in {"table", "empty"} THEN "none" ELSE items]

\* display_extracted_data(data): the elements shown, and the exception that
\* ended it ("none" when it returned).  What was shown before an exception
\* stays on the page.  data.get on anything but a dict is an AttributeError.
DisplayLineItems(m, li) == DisplayDict(m, li, LineItems(li))
display_extracted_data(data) ==
    IF data.t # "obj"
    THEN [out |-> << El("subheader", "Invoice Information", <<>>) >>,
          raised |-> "AttributeError"]
    ELSE DisplayLineItems(data.m, Get(data.m, K_line_items, JNull))

(***************************************************************************)
(* Inputs: what the service may answer, what the user may type or upload   *)
(***************************************************************************)
\* Bounds of the model.
MaxRequests == 2
MaxMissing == 1
MaxItems == 2
MaxPad == 1

ScalarKeys == {ScalarFields[i] : i \in 1..Len(ScalarFields)}

\* A sample invoice: every text field filled in.
SampleValue(i) == IF ScalarFields[i] = K_currency THEN <<"E", "U", "R">> ELSE NumText(i)
FullRecord ==
    [k \in ScalarKeys |->
        JStr(SampleValue(CHOOSE i \in 1..Len(ScalarFields) : ScalarFields[i] = k))]

Item(i) ==
    JObj([k \in {ItemFields[j] : j \in 1..Len(ItemFields)} |->
            IF k = K_description THEN JStr(<<"A">>) ELSE JStr(NumText(i))])

Items(n) == [i \in 1..n |-> Item(i)]

Restrict(m, S) == [k \in S |-> m[k]]

\* The records display_extracted_data is tried on: the sample with at most
\* MaxMissing text fields left out, or with none of them, and line_items
\* absent, null, a text, or a list of up to MaxItems items.
KeySets ==
    {S \in SUBSET ScalarKeys : Cardinality(ScalarKeys \ S) <= MaxMissing} \cup {{}}

LineItemValues ==
    {JNull, JStr(NA), JStr(<<>>)} \cup {JArr(Items(n)) : n \in 0..MaxItems}

DisplayInputs ==
    {JObj(Restrict(FullRecord, S)) : S \in KeySets}
        \cup {JObj(Put(Restrict(FullRecord, S), K_line_items, v)) :
                S \in KeySets, v \in LineItemValues}

\* Inner texts of a response: JSON texts of the prompt's shape, other JSON
\* texts, and texts that are not JSON.
SampleRecords ==
    { JObj(Put(FullRecord, K_line_items, JArr(Items(1)))),
      JObj(Put(Restrict(FullRecord, ScalarKeys \ {K_tax_amount}), K_line_items, JArr(Items(MaxItems)))),
      JObj(FullRecord),
      JObj(Put(FullRecord, K_line_items, JArr(<<>>))),
      JObj(Put(FullRecord, K_line_items, JStr(NA))),
      JObj(Put(Restrict(FullRecord, {K_vendor_name}), K_total_amount, JNull)) }

OtherValues ==
    { JObj(<<>>), JArr(<<>>), JArr(Items(1)), JNull, JNum(0), JNum(1234),
      JBool(TRUE), JStr(<<>>), JStr(NA) }

Prose == <<"S", "o", "r", "r", "y", ",", " ", "n", "o", " ", "i", "n", "v", "o", "i", "c", "e", ".">>

NotJson ==
    { <<>>, Prose, <<"{">>, <<"{", "\"", "a", "\"", ":", "}">>,
      <<"[", "1", ",", "]">>, <<"{", "}", "{", "}">> }

JsonInners == {JsonText(v) : v \in SampleRecords \cup OtherValues}
Inners == JsonInners \cup NotJson

\* Whitespace runs of up to n characters.
RECURSIVE Pads(_)
Pads(n) ==
    IF n = 0 THEN {<<>>}
    ELSE Pads(n - 1) \cup {Append(p, c) : p \in Pads(n - 1), c \in Whitespace}

\* What may stand before and after the inner text.
Openings ==
    { <<>>, FenceJson \o <<"\n">>, Fence \o <<"\n">>, FenceJson, Fence,
      <<BACKTICK>> \o Fence \o <<"\n">>, <<BACKTICK>> \o FenceJson \o <<"\n">> }
Closings ==
    { <<>>, <<"\n">> \o Fence, Fence, <<"\n">> \o Fence \o <<BACKTICK>> }

\* A response body, kept with the parts it was written from.
Wrap(pre, open, inner, close, post) ==
    [pre |-> pre, open |-> open, inner |-> inner, close |-> close, post |-> post]
Compose(b) == b.pre \o b.open \o b.inner \o b.close \o b.post

FenceInputs ==
    { Wrap(pre, open, inner, close, post) :
        pre \in Pads(MaxPad), open \in Openings, inner \in Inners,
        close \in Closings, post \in Pads(MaxPad) }

\* The three forms of a well-formed response around the inner text J.
FormJsonFence(J) == Wrap(<<>>, FenceJson \o <<"\n">>, J, <<"\n">> \o Fence, <<>>)
FormFence(J) == Wrap(<<>>, Fence \o <<"\n">>, J, <<"\n">> \o Fence, <<>>)
FormBare(J) == Wrap(<<>>, <<>>, J, <<>>, <<>>)

\* What client.chat.completions.create may do in a session: raise, answer
\* with no content, or answer with a body.
Reply(kind, text) == [kind |-> kind, body |-> text]
NoReply == Reply("none", <<>>)
SessionBodies ==
    {Compose(FormJsonFence(J)) : J \in Inners}
        \cup {Compose(FormBare(J)) : J \in Inners}
        \cup {Compose(Wrap(<<>>, FenceJson \o <<"\n">>, J, <<>>, <<"\n">>)) : J \in JsonInners}
SessionReplies ==
    {Reply("error", <<>>), Reply("no_content", <<>>)}
        \cup {Reply("body", b) : b \in SessionBodies}

\* The access keys a user may type and the files a user may upload: an
\* image PNG can hold, a CMYK JPEG (Image.open reads it, PNG cannot hold
\* it) and a file that is no image.
Keys == {"sk-1", "sk-2"}
Files == {"invoice.png", "cmyk.jpg", "broken.png"}
DecodableAlways(f) == TRUE
Decodable(f) == f \in {"invoice.png", "cmyk.jpg"}
PngEncodable(f) == f = "invoice.png"

(***************************************************************************)
(* State                                                                   *)
(***************************************************************************)
VARIABLES
    secrets,          \* st.secrets["OPENAI_API_KEY"] of the process; "" when unset
    client,           \* key held by the client init_openai caches; "" before it
    api_key,          \* the sidebar text input of the session
    uploaded_file,    \* the file uploader of the session; "none" when empty
    clicked,          \* the widget whose change started the last script run
    page,             \* the elements the last script run put on the page
    reply,            \* what the completion call did in the last script run
    extracted_data,   \* what extract_invoice_data returned in the last run
    requests,         \* completion requests issued so far
    body,             \* fence steps: the response body and its parts
    stripped,         \* fence steps: content after line 81
    content,          \* fence steps: content after lines 82-85
    loaded,           \* fence steps: what json.loads answered at line 87
    fstep,            \* fence steps: how far lines 80-87 have run
    data,             \* display steps: the argument of display_extracted_data
    shown             \* display steps: what display_extracted_data did

sessionVars == <<secrets, client, api_key, uploaded_file, clicked, page, reply,
                 extracted_data, requests>>
fenceVars == <<body, stripped, content, loaded, fstep>>
displayVars == <<data, shown>>
vars == <<sessionVars, fenceVars, displayVars>>

\* extract_invoice_data was not called / what it returned (None is JNull).
NotCalled == [called |-> FALSE, val |-> JNull]
Returned(v) == [called |-> TRUE, val |-> v]

NotShown == [out |-> <<>>, raised |-> "unset"]

(***************************************************************************)
(* extract_invoice_data and the script                                     *)
(***************************************************************************)
\* Lines 80-87 on every body a session may receive, as a table.
ParsedBody == [b \in SessionBodies |-> ParseContent(b)]

\* Variant of the handler that returns what it has of the record.
ExtractFailedPartial(exception, sent) ==
    [ret |-> JObj(Restrict(FullRecord, {K_vendor_name})), sent |-> sent,
     out |-> << El("error", "Error extracting data:", <<exception>>) >>]

\* Variant of the handler that sends the request once more.
ExtractFailedRetry(exception, sent) ==
    [ret |-> JNull, sent |-> 2 * sent,
     out |-> << El("error", "Error extracting data:", <<exception>>) >>]

\* Lines 89-91: the handler of every exception raised in lines 27-87.
ExtractFailed(exception, sent) ==
    [ret |-> JNull, sent |-> sent,
     out |-> << El("error", "Error extracting data:", <<exception>>) >>]

\* extract_invoice_data(image): the value returned, the requests issued and
\* the elements shown.  rep is what the completion call does if it is made.
extract_invoice_data(image, rep) ==
    IF ~PngEncodable(image) THEN ExtractFailed("OSError", 0)
    ELSE IF rep.kind = "error" THEN ExtractFailed("APIError", 1)
    ELSE IF rep.kind = "no_content" THEN ExtractFailed("AttributeError", 1)
    ELSE LET r == ParsedBody[rep.body]
         IN  IF r.ok THEN [ret |-> r.val, sent |-> 1, out |-> <<>>]
             ELSE ExtractFailed("JSONDecodeError", 1)

\* Lines 186-219: the caller, given a truthy value v and what
\* display_extracted_data(v) did (d).  csv is the outcome of lines 207-215:
\* "skip", "button" or the exception of pd.DataFrame().
CsvOutcome(li) ==
    IF ~Truthy(li) THEN "skip" ELSE IF DataFrameOk(li) THEN "button" ELSE "ValueError"

ResultPage(d, csv) ==
    [out |->
        << El("success", "Data extracted successfully!", <<>>) >> \o d.out \o
        (IF d.raised # "none" THEN <<>>
         ELSE << El("subheader", "Download Options", <<>>),
                 El("download_button", "Download JSON", <<"invoice_data.json">>) >>
              \o (IF csv = "button"
                  THEN << El("download_button", "Download Line Items CSV",
                             <<"invoice_line_items.csv">>) >>
                  ELSE <<>>)
              \o (IF csv \in {"skip", "button"}
                  THEN << El("expander", "View Raw JSON Data", <<>>),
                          El("json", "", <<>>) >>
                  ELSE <<>>)),
     raised |-> IF d.raised # "none" THEN d.raised
                ELSE IF csv \in {"skip", "button"} THEN "none"
                ELSE csv]

\* Lines 185-219: what the caller does with the value returned.
ShowResult(v) ==
    IF ~Truthy(v) THEN [out |-> <<>>, raised |-> "none"]
    ELSE ResultPage(display_extracted_data(v),
                    IF v.t = "obj" THEN CsvOutcome(Get(v.m, K_line_items, JNull))
                    ELSE "skip")

\* Lines 141-166: title, sidebar and file uploader.  sec is st.secrets
\* after line 150.
ShowTop(key) ==
    << El("title", "Invoice Data Extractor", <<>>),
       El("markdown", "Upload an invoice image and extract structured data automatically!", <<>>),
       El("header", "Setup", <<>>),
       El("text_input", "OpenAI API Key", <<key>>) >>
    \o (IF key # "" THEN << El("success", "API key configured!", <<>>) >> ELSE <<>>)
    \o << El("header", "Instructions", <<>>),
          El("markdown", "Instructions", <<>>),
          El("file_uploader", "Choose an invoice image...", <<>>) >>

\* Lines 224-226.
ShowFooter ==
    << El("markdown", "---", <<>>),
       El("markdown", "Built with Streamlit and OpenAI Vision API", <<>>) >>

\* Line 221-222: the handler of every exception raised in lines 173-219.
ImageFailed(exception) == << El("error", "Error processing image:", <<exception>>) >>

\* Lines 181-219 when the button is pressed: x is what extract_invoice_data
\* did, r what the caller showed for its value.
Pressed(x, r) ==
    [out |-> x.out \o r.out \o (IF r.raised = "none" THEN <<>> ELSE ImageFailed(r.raised)),
     sent |-> x.sent, used |-> TRUE, data |-> Returned(x.ret)]

Extracted(x) == Pressed(x, ShowResult(x.ret))

\* Variant of KeyHeld that never misses a key.
KeyHeldAlways(sec) == TRUE

\* Line 177: st.secrets.get("OPENAI_API_KEY") is truthy.
KeyHeld(sec) == sec # ""

\* Lines 149-150: a key that was typed is stored in st.secrets.
StoreKey(key, sec) == IF key # "" THEN key ELSE sec

\* Lines 168-222: the upload section.  sec is st.secrets after line 150.
Idle(out) == [out |-> out, sent |-> 0, used |-> FALSE, data |-> NotCalled]

After(shown_, rest) == [rest EXCEPT !.out = shown_ \o rest.out]

ShowUpload(file, sec, pressed, rep) ==
    IF file = "none" THEN Idle(<<>>)
    ELSE After(<< El("subheader", "Uploaded Invoice", <<>>) >>,
        IF ~Decodable(file) THEN Idle(ImageFailed("UnidentifiedImageError"))
        ELSE After(<< El("image", "Uploaded Invoice", <<file>>) >>,
            IF ~KeyHeld(sec)
            THEN Idle(<< El("warning", "Please enter your OpenAI API key in the sidebar to proceed.", <<>>) >>)
            ELSE After(<< El("button", "Extract Invoice Data", <<>>) >>,
                IF pressed THEN Extracted(extract_invoice_data(file, rep))
                ELSE Idle(<<>>))))

\* One run of the script, top to bottom: the widget values it reads, the
\* widget that started it, and what the completion call does if made.
\* Line 150 stores a key that was typed; init_openai builds the client once
\* per process, from the key st.secrets holds then.
Run(key, file, widget, rep) ==
    \E sec \in {StoreKey(key, secrets)} :
    \E up \in {ShowUpload(file, sec, widget = "extract", rep)} :
        /\ api_key' = key
        /\ uploaded_file' = file
        /\ clicked' = widget
        /\ secrets' = sec
        /\ client' = IF up.used /\ client = "" THEN sec ELSE client
        /\ page' = ShowTop(key) \o up.out \o ShowFooter
        /\ reply' = IF up.sent > 0 THEN rep ELSE NoReply
        /\ extracted_data' = up.data
        /\ requests' = requests + up.sent
        /\ UNCHANGED <<fenceVars, displayVars>>

OnPage(kind, label) == \E i \in 1..Len(page) : page[i].kind = kind /\ page[i].label = label

(***************************************************************************)
(* Session: one action per user interaction                                *)
(***************************************************************************)
\* The user types, changes or clears the key in the sidebar.
EnterKey ==
    \E k \in Keys \cup {""} :
        /\ k # api_key
        /\ Run(k, uploaded_file, "api_key", NoReply)

\* The user uploads a file, replaces it or removes it.
ChooseFile ==
    \E f \in Files \cup {"none"} :
        /\ f # uploaded_file
        /\ Run(api_key, f, "uploader", NoReply)

\* The user presses the extract button.
PressExtract ==
    /\ OnPage("button", "Extract Invoice Data")
    /\ requests < MaxRequests
    /\ \E rep \in SessionReplies : Run(api_key, uploaded_file, "extract", rep)

\* The user presses a download button: the browser saves the file and the
\* script runs again.
PressDownloadJson ==
    /\ OnPage("download_button", "Download JSON")
    /\ Run(api_key, uploaded_file, "download_json", NoReply)

PressDownloadCsv ==
    /\ OnPage("download_button", "Download Line Items CSV")
    /\ Run(api_key, uploaded_file, "download_csv", NoReply)

\* The session ends and a new one starts in the same process: the widgets
\* are empty again, st.secrets and the cached client are kept.
NewSession ==
    /\ clicked # "none"
    /\ Run("", "none", "none", NoReply)

InitSession ==
    /\ secrets = ""
    /\ client = ""
    /\ api_key = ""
    /\ uploaded_file = "none"
    /\ clicked = "none"
    /\ page = ShowTop("") \o ShowFooter
    /\ reply = NoReply
    /\ extracted_data = NotCalled
    /\ requests = 0

FenceIdle ==
    /\ body = Wrap(<<>>, <<>>, <<>>, <<>>, <<>>)
    /\ stripped = <<>>
    /\ content = <<>>
    /\ loaded = Failed
    /\ fstep = "idle"

DisplayIdle ==
    /\ data = JNull
    /\ shown = NotShown

Init == InitSession /\ FenceIdle /\ DisplayIdle

Next ==
    \/ EnterKey
    \/ ChooseFile
    \/ PressExtract
    \/ PressDownloadJson
    \/ PressDownloadCsv
    \/ NewSession

Spec == Init /\ [][Next]_vars

(***************************************************************************)
(* Lines 80-87 step by step, on every response body of FenceInputs         *)
(***************************************************************************)
InitFence ==
    /\ InitSession
    /\ DisplayIdle
    /\ body \in FenceInputs
    /\ stripped = <<>>
    /\ content = <<>>
    /\ loaded = Failed
    /\ fstep = "reply"

\* Lines 80-81.
TakeContent ==
    /\ fstep = "reply"
    /\ stripped' = strip(Compose(body))
    /\ fstep' = "stripped"
    /\ UNCHANGED <<body, content, loaded, sessionVars, displayVars>>

\* Lines 82-85.
Unfence ==
    /\ fstep = "stripped"
    /\ content' = RemoveFence(stripped)
    /\ fstep' = "unfenced"
    /\ UNCHANGED <<body, stripped, loaded, sessionVars, displayVars>>

\* Line 87.
Load ==
    /\ fstep = "unfenced"
    /\ loaded' = json_loads(content)
    /\ fstep' = "loaded"
    /\ UNCHANGED <<body, stripped, content, sessionVars, displayVars>>

NextFence == TakeContent \/ Unfence \/ Load

SpecFence == InitFence /\ [][NextFence]_vars

(***************************************************************************)
(* display_extracted_data on every record of DisplayInputs                 *)
(***************************************************************************)
InitDisplay ==
    /\ InitSession
    /\ FenceIdle
    /\ data \in DisplayInputs
    /\ shown = NotShown

Display ==
    /\ shown = NotShown
    /\ shown' = display_extracted_data(data)
    /\ UNCHANGED <<data, sessionVars, fenceVars>>

NextDisplay == Display

SpecDisplay == InitDisplay /\ [][NextDisplay]_vars

(***************************************************************************)
(* Properties of lines 80-87 (SpecFence)                                   *)
(***************************************************************************)
ThreeForms(J) == {FormJsonFence(J), FormFence(J), FormBare(J)}

WellFormedReply == body.inner \in JsonInners /\ body \in ThreeForms(body.inner)

\* s is raw without its leading and trailing whitespace.
IsStripOf(raw, s) ==
    /\ s # <<>> => s[1] \notin Whitespace /\ s[Len(s)] \notin Whitespace
    /\ \E i \in 0..(Len(raw) - Len(s)) :
          /\ SubSeq(raw, i + 1, i + Len(s)) = s
          /\ \A p \in (1..i) \cup ((i + Len(s) + 1)..Len(raw)) : raw[p] \in Whitespace

\* c is s without its first a and its last b characters.
LosesEnds(s, c, a, b) ==
    /\ Len(c) = IF Len(s) > a + b THEN Len(s) - a - b ELSE 0
    /\ \A i \in 1..Len(c) : c[i] = s[i + a]

FourTicks == <<BACKTICK>> \o Fence

\* An opening fence with no closing fence, or a fence of four grave accents.
BrokenFence ==
    /\ body.open # <<>>
    /\ \/ body.close = <<>>
       \/ startswith(body.open, FourTicks)
       \/ /\ Len(body.close) >= 4
          /\ SubSeq(body.close, Len(body.close) - 3, Len(body.close)) = FourTicks

\* C2 as stated: for every JSON text J the bodies "```json\nJ\n```",
\* "```\nJ\n```" and "J" parse to the same mapping, and the stripping step
\* (lines 81-85) applied again to the stripped body leaves it unchanged.
C2_Original ==
    (fstep = "loaded" /\ WellFormedReply) =>
        /\ loaded.ok
        /\ \A f \in ThreeForms(body.inner) : ParseContent(Compose(f)) = loaded
        /\ StripFence(content) = content

\* C2 as amended: the three bodies parse to the same mapping; the stripping
\* step applied again to the stripped body only removes the whitespace
\* around it (the line breaks left inside the fence), so the text parses to
\* the same mapping again.
C2_ThreeFormsParseAlike ==
    (fstep = "loaded" /\ WellFormedReply) =>
        /\ loaded.ok
        /\ \A f \in ThreeForms(body.inner) : ParseContent(Compose(f)) = loaded
        /\ IsStripOf(content, StripFence(content))
        /\ json_loads(StripFence(content)) = loaded

C2_Witness ==
    /\ fstep = "loaded"
    /\ body = FormJsonFence(body.inner)
    /\ loaded.ok
    /\ loaded.val.t = "obj"
    /\ K_tax_amount \in DOMAIN loaded.val.m
    /\ content # StripFence(content)

\* C9: after whitespace-stripping, a body that starts with ```json loses
\* exactly its first 7 and last 3 characters, any other body that starts
\* with ``` loses its first 3 and last 3, any other body is unchanged; the
\* last 3 characters go unchecked, so a body with an opening fence and no
\* closing fence, or with a four-character fence, is mis-trimmed: what is
\* left is not the inner text and does not parse to the inner value.
C9_FixedOffsetSlicing ==
    (fstep \in {"unfenced", "loaded"}) =>
        /\ IsStripOf(Compose(body), stripped)
        /\ IF startswith(stripped, FenceJson) THEN LosesEnds(stripped, content, 7, 3)
           ELSE IF startswith(stripped, Fence) THEN LosesEnds(stripped, content, 3, 3)
           ELSE content = stripped
        /\ (fstep = "loaded" /\ BrokenFence /\ body.inner \in JsonInners) =>
              /\ ~IsStripOf(content, body.inner)
              /\ loaded # json_loads(body.inner)

C9_Witness ==
    /\ fstep = "loaded"
    /\ body.open = FenceJson \o <<"\n">>
    /\ body.close = <<>>
    /\ body.inner \in JsonInners
    /\ json_loads(body.inner).val.t = "obj"
    /\ Len(content) = Len(stripped) - 10
    /\ ~loaded.ok

(***************************************************************************)
(* Properties of display_extracted_data (SpecDisplay)                      *)
(***************************************************************************)
RECURSIVE FirstSpace(_, _)
FirstSpace(s, i) ==
    IF i > Len(s) THEN 0 ELSE IF s[i] = " " THEN i ELSE FirstSpace(s, i + 1)

\* Where a completed display shows each field, and under which label.
SlotOf(k) ==
    CASE k = K_invoice_number -> 2
      [] k = K_invoice_date -> 3
      [] k = K_due_date -> 4
      [] k = K_vendor_name -> 6
      [] k = K_vendor_address -> 7
      [] k = K_vendor_tax_id -> 8
      [] k = K_customer_name -> 10
      [] k = K_customer_address -> 11
      [] k = K_subtotal -> 15
      [] k = K_tax_amount -> 16
      [] k = K_total_amount -> 17
      [] k = K_currency -> 15

LabelOf(k) ==
    CASE k = K_invoice_number -> "Invoice Number"
      [] k = K_invoice_date -> "Invoice Date"
      [] k = K_due_date -> "Due Date"
      [] k \in {K_vendor_name, K_customer_name} -> "**Name:**"
      [] k \in {K_vendor_address, K_customer_address} -> "**Address:**"
      [] k = K_vendor_tax_id -> "**Tax ID:**"
      [] k \in {K_subtotal, K_currency} -> "Subtotal"
      [] k = K_tax_amount -> "Tax Amount"
      [] k = K_total_amount -> "Total Amount"

AmountKeys == {K_subtotal, K_tax_amount, K_total_amount}

\* The text a completed display shows for field k: the element of the field,
\* for an amount what follows the first space of it, for the currency what
\* precedes the first space of the subtotal.
Rendering(out, k) ==
    LET v == out[SlotOf(k)].value
    IN  IF k = K_currency THEN SubSeq(v, 1, FirstSpace(v, 1) - 1)
        ELSE IF k \in AmountKeys THEN SubSeq(v, FirstSpace(v, 1) + 1, Len(v))
        ELSE v

HeadKeys == ScalarKeys \ (AmountKeys \cup {K_currency})

\* The display ran to its end: every field has its element.
Completed(out) ==
    /\ Len(out) = 17
    /\ \A k \in ScalarKeys : out[SlotOf(k)].label = LabelOf(k)
    /\ \A k \in AmountKeys :
          Rendering(out, K_currency)
              = SubSeq(out[SlotOf(k)].value, 1, FirstSpace(out[SlotOf(k)].value, 1) - 1)

\* The display stopped at the line items: the fields before them are shown.
StoppedAtItems(out) ==
    /\ Len(out) = 12
    /\ \A k \in HeadKeys : out[SlotOf(k)].label = LabelOf(k)

\* The display of the record with key k filled in.
WithKey(k) == display_extracted_data(JObj(Put(data.m, k, JStr(<<"x">>))))

\* C6 as stated: for every parsed mapping and every known scalar field whose
\* key is missing, display_extracted_data does not raise, renders N/A for
\* the field, and renders every other field as if the key were present.
C6_Original ==
    (shown.raised # "unset" /\ data.t = "obj") =>
        \A k \in ScalarKeys \ DOMAIN data.m :
            /\ shown.raised = "none"
            /\ Completed(shown.out)
            /\ Rendering(shown.out, k) = NA
            /\ WithKey(k).raised = "none"
            /\ \A f \in ScalarKeys \ {k} :
                  Rendering(shown.out, f) = Rendering(WithKey(k).out, f)

\* line_items is a text that is not empty.
ItemsAreText ==
    /\ K_line_items \in DOMAIN data.m
    /\ data.m[K_line_items].t = "str"
    /\ data.m[K_line_items].s # <<>>

\* C6 as amended: where a field is rendered, a missing key of a scalar field
\* other than currency is rendered as N/A and a missing currency as an empty
\* prefix of the three amounts; a missing key neither makes the display
\* raise nor alters how any other field is rendered.  With line_items
\* absent, null, empty or a list the display does not raise; with line_items
\* a non-empty text such as "N/A" it raises whatever keys are missing, after
\* the invoice, vendor and customer fields and before the totals.
C6_MissingKeyDefaults ==
    (shown.raised # "unset" /\ data.t = "obj") =>
        LET rendered == IF ItemsAreText THEN HeadKeys ELSE ScalarKeys
        IN  /\ shown.raised = IF ItemsAreText THEN "ValueError" ELSE "none"
            /\ IF ItemsAreText THEN StoppedAtItems(shown.out) ELSE Completed(shown.out)
            /\ \A k \in ScalarKeys \ DOMAIN data.m :
                  /\ k \in rendered =>
                        Rendering(shown.out, k) = IF k = K_currency THEN <<>> ELSE NA
                  /\ WithKey(k).raised = shown.raised
                  /\ \A f \in rendered \ {k} :
                        Rendering(shown.out, f) = Rendering(WithKey(k).out, f)

C6_Witness ==
    /\ shown.raised = "none"
    /\ data.t = "obj"
    /\ ScalarKeys \ DOMAIN data.m = {K_tax_amount}
    /\ K_line_items \in DOMAIN data.m
    /\ shown.out[16] = El("metric", "Tax Amount", <<"E", "U", "R", " ", "N", "/", "A">>)

ShowsTable == \E i \in 1..Len(shown.out) : shown.out[i].kind = "dataframe"
ShowsNoItems ==
    \E i \in 1..Len(shown.out) : shown.out[i] = El("write", "No line items found", <<>>)

\* C7: display_extracted_data shows "No line items found", and no table,
\* whenever line_items is the empty list or the key is absent; it shows the
\* table exactly when line_items is a non-empty list.
C7_LineItemsState ==
    (shown.raised # "unset" /\ data.t = "obj") =>
        LET present == K_line_items \in DOMAIN data.m
        IN  /\ (~present \/ data.m[K_line_items] = JArr(<<>>)) =>
                  ShowsNoItems /\ ~ShowsTable /\ shown.raised = "none"
            /\ ShowsTable <=>
                  /\ present
                  /\ data.m[K_line_items].t = "arr"
                  /\ Len(data.m[K_line_items].e) > 0
            /\ ~(ShowsTable /\ ShowsNoItems)

C7_Witness ==
    /\ shown.raised = "none"
    /\ data.t = "obj"
    /\ K_line_items \in DOMAIN data.m
    /\ data.m[K_line_items] = JArr(<<>>)
    /\ ShowsNoItems
    /\ ~ShowsTable

(***************************************************************************)
(* Properties of a session (Spec)                                          *)
(***************************************************************************)
Has(pg, kind, label) == \E i \in 1..Len(pg) : pg[i].kind = kind /\ pg[i].label = label
OfKind(pg, kinds) == {i \in 1..Len(pg) : pg[i].kind \in kinds}

SuccessShown(pg) == Has(pg, "success", "Data extracted successfully!")
FieldsShown(pg) == OfKind(pg, {"metric", "write", "dataframe", "json", "expander"}) # {}
DownloadsShown(pg) == OfKind(pg, {"download_button"}) # {}
ButtonShown(pg) == Has(pg, "button", "Extract Invoice Data")
WarningShown(pg) ==
    Has(pg, "warning", "Please enter your OpenAI API key in the sidebar to proceed.")
OneError(pg, label) ==
    /\ Cardinality(OfKind(pg, {"error"})) = 1
    /\ Has(pg, "error", label)

\* The completion call of the last run raised, or answered with a body that
\* is not JSON once the fence is stripped.
CallFailed ==
    \/ reply.kind \in {"error", "no_content"}
    \/ reply.kind = "body" /\ ~json_loads(StripFence(reply.body)).ok

\* C1: when the completion call raises or the fence-stripped body is not
\* JSON, extract_invoice_data reports exactly one error and returns None,
\* and the run shows no success message, no fields and no download.
C1_FailureYieldsAbsent ==
    CallFailed =>
        /\ extracted_data = Returned(JNull)
        /\ OneError(page, "Error extracting data:")
        /\ ~SuccessShown(page)
        /\ ~FieldsShown(page)
        /\ ~DownloadsShown(page)

C1_Witness ==
    /\ reply = Reply("body", Prose)
    /\ clicked = "extract"
    /\ OneError(page, "Error extracting data:")
    /\ extracted_data = Returned(JNull)

NoExtraction == ~ButtonShown(page) /\ ~extracted_data.called /\ reply = NoReply

C4_OneRequestPerPress ==
    [][ /\ requests' \in {requests, requests + 1}
        /\ requests' # requests => clicked' = "extract"
        /\ clicked' # "extract" => reply' = NoReply ]_vars

C4_Witness ==
    /\ clicked = "extract"
    /\ reply.kind = "error"
    /\ requests = 1
    /\ OneError(page, "Error extracting data:")

ResultShown(pg) == SuccessShown(pg) /\ FieldsShown(pg) /\ DownloadsShown(pg)

\* C5: once an extraction has succeeded, the session holds its result: it
\* stays on the page, rendered and downloadable, when a download button is
\* pressed (the later action the claim names).
C5_ResultHeld ==
    [][ ( /\ ResultShown(page)
          /\ clicked' \in {"download_json", "download_csv"}
          /\ uploaded_file' = uploaded_file ) => ResultShown(page') ]_vars

\* The file is uploaded and does not decode.
Undecodable(f) == f = "broken.png"

\* C8: a run whose uploaded file does not decode shows one error, offers no
\* extract button and issues no request; the next run with a file that
\* decodes and a key held offers the button again.
C8_DecodeErrorHalts ==
    [][ /\ Undecodable(uploaded_file') =>
              /\ OneError(page', "Error processing image:")
              /\ ~ButtonShown(page')
              /\ ~extracted_data'.called
              /\ reply' = NoReply
              /\ requests' = requests
        /\ ( /\ Undecodable(uploaded_file)
             /\ uploaded_file' \in {"invoice.png", "cmyk.jpg"}
             /\ secrets' # "" ) =>
              /\ ButtonShown(page')
              /\ OfKind(page', {"error"}) = {} ]_vars

C8_Witness ==
    /\ Undecodable(uploaded_file)
    /\ secrets # ""
    /\ OneError(page, "Error processing image:")
    /\ ~ButtonShown(page)

\* The value of the last run is falsy although the body parsed.
ParsedEmpty ==
    /\ reply.kind = "body"
    /\ json_loads(StripFence(reply.body)).ok
    /\ json_loads(StripFence(reply.body)).val \in {JObj(<<>>), JArr(<<>>)}

NonEmptyList(v) == v.t = "arr" /\ Len(v.e) > 0

\* C10: the success message, the fields and the download buttons are shown
\* only in a run where the extract button was pressed and
\* extract_invoice_data returned a truthy value, the CSV button only when
\* line_items is non-empty; a body that parses to {} or [] gives neither a
\* success message nor an error, and the page of a failed extraction
\* without its error.
C10_ResultsNeedTruthyValue ==
    /\ (SuccessShown(page) \/ FieldsShown(page) \/ DownloadsShown(page)) =>
          /\ clicked = "extract"
          /\ extracted_data.called
          /\ extracted_data.val \notin
                {JNull, JBool(FALSE), JNum(0), JStr(<<>>), JArr(<<>>), JObj(<<>>)}
    /\ Has(page, "download_button", "Download Line Items CSV") =>
          /\ extracted_data.val.t = "obj"
          /\ K_line_items \in DOMAIN extracted_data.val.m
          /\ NonEmptyList(extracted_data.val.m[K_line_items])
    /\ ParsedEmpty =>
          /\ ~SuccessShown(page)
          /\ OfKind(page, {"error"}) = {}
          /\ ~FieldsShown(page)
          /\ ~DownloadsShown(page)
          /\ ~Truthy(extracted_data.val)

C10_Witness ==
    /\ reply = Reply("body", <<"{", "}">>)
    /\ extracted_data = Returned(JObj(<<>>))
    /\ ~SuccessShown(page)
    /\ OfKind(page, {"error"}) = {}

====
